---- MODULE Spec2Model ----
(***************************************************************************)
(* Model of util/log/file.go: the log filename codec (logName,             *)
(* parseLogFilename and the escaping helpers), the segment creator         *)
(* (create), the file accessor (GetLogReader) and the multi-file entry     *)
(* fetch (FetchEntiresFromFiles, readAllEntriesFromFile).                  *)
(*                                                                         *)
(* Strings are sequences of one-character strings.  Times are integers     *)
(* (Unix nanoseconds in the code); they may be negative, as UnixNano is    *)
(* for a file name dated before 1970.                                      *)
(***************************************************************************)
EXTENDS Integers, Sequences, FiniteSets, TLC

\* ------------------------------------------------------------------ bounds
\* Files in the log directory.
MaxFiles == 2
\* Entries stored in one log file.
MaxEntries == 2
\* Entries stored in the listed log files altogether.
MaxStored == 3
\* Greatest creation time / entry time / window bound.
MaxTime == 1
\* Greatest value given to the EntiresCutoff variable.
MaxCutoff == 2
\* Longest program name, host name and user name.
MaxIdLen == 2
\* Greatest segment start time given to logName, in seconds.
MaxSecond == 2
\* Longest list of candidate directories.
MaxDirs == 2
\* Calls of create in one run.
MaxCreates == 2

\* ------------------------------------------------------------------ state
VARIABLES
  \* --- the filename codec
  program,             \* package variables, lines 68-73
  host,
  userName,
  pid,
  inLevel,             \* logName's arguments
  inTime,
  name,                \* the file name (logName's result, or an altered one)
  link,
  details,             \* parseLogFilename's result
  cpc,                 \* "start", "encoded", "altered", "parsed"
  \* --- create
  logDir,              \* the flag value, line 53 (<<>> when empty)
  logDirs,             \* line 56
  onceDone,            \* onceLogDirs has run
  writable,            \* the directories in which a file can be created
  symlinks,            \* <<directory, link name, target>> triples on disk
  createRes,           \* the last call's result and the directories it tried
  nCreates,
  \* --- GetLogReader
  files,               \* paths of the regular files on disk
  unreadable,          \* those among them that os.Open cannot open
  rFilename,           \* the arguments
  rAllowAbsolute,
  accessed,            \* history: the paths handed to os.Stat and os.Open
  readerRes,           \* [reader, err]: the path the stream is on (<<>> for nil)
  rpc,                 \* "call", "done"
  \* --- FetchEntiresFromFiles
  logFiles,            \* what ListLogFiles returns: a sequence of [level, time]
  content,             \* per listed file: the entries its decoder yields
  level,               \* requested level
  startTimeNano,
  endTimeNano,
  EntiresCutoff,       \* the package variable, read at line 352
  fpc,                 \* "call", "loop", "done"
  nanos,               \* the int64sortable slice
  logFileMap,          \* nano -> index into logFiles
  closestToStartNano,
  pos,                 \* loop index into nanos (line 346)
  entries,             \* the accumulated entries
  opened,              \* history: indices of the files handed to GetLogReader
  outcome,             \* "none", "ok", "error", "panic"
  result               \* the returned slice (<<>> for nil)

codecVars == <<program, host, userName, pid, inLevel, inTime, name, link,
               details, cpc>>

createVars == <<logDir, logDirs, onceDone, writable, symlinks, createRes, nCreates>>

readerVars == <<files, unreadable, rFilename, rAllowAbsolute, accessed, readerRes, rpc>>

fetchVars == <<logFiles, content, level, startTimeNano, endTimeNano,
               EntiresCutoff, fpc, nanos, logFileMap, closestToStartNano,
               pos, entries, opened, outcome, result>>

vars == <<codecVars, createVars, readerVars, fetchVars>>

\* What each part of the package leaves alone.
codecOthers == <<createVars, readerVars, fetchVars>>
createOthers == <<codecVars, unreadable, rFilename, rAllowAbsolute, accessed,
                  readerRes, rpc, fetchVars>>
readerOthers == <<codecVars, createVars, fetchVars>>
fetchOthers == <<codecVars, createVars, readerVars>>

\* ------------------------------------------------------------------ helpers
Range(s) == {s[i] : i \in 1..Len(s)}

\* The sequences over S of length n or less.
RECURSIVE SeqsUpTo(_, _)
SeqsUpTo(S, n) ==
  IF n = 0 THEN {<<>>}
  ELSE LET shorter == SeqsUpTo(S, n - 1)
       IN shorter \cup {Append(s, x) : s \in shorter, x \in S}

RECURSIVE InsertDesc(_, _)
InsertDesc(x, s) ==
  IF s = <<>> THEN <<x>>
  ELSE IF x >= Head(s) THEN <<x>> \o s
  ELSE <<Head(s)>> \o InsertDesc(x, Tail(s))

\* sort.Sort(sort.Reverse(nanos)): the slice in descending order.
RECURSIVE SortReverse(_)
SortReverse(s) == IF s = <<>> THEN <<>> ELSE InsertDesc(Head(s), SortReverse(Tail(s)))

\* ------------------------------------------------------------------ domains
Times == (0 - 1)..MaxTime
WindowTimes == (0 - 2)..MaxTime
\* Levels a listed file can carry: the ones logFileRE accepts (two of them here).
FileLevels == {"ERROR", "INFO"}
\* The level asked for.  The selection only compares it with each file's level,
\* so one requested level over files of both levels covers the other.
RequestLevels == {"INFO"}

FileKinds == [level : FileLevels, time : Times]

\* What ListLogFiles returns: the matching files of one directory after those
\* of another, each directory in the order of its whole file names (program,
\* host and user come before the level and the time), so the levels and times
\* of the list come in any order.
Listings == SeqsUpTo(FileKinds, MaxFiles)

\* What a log file can hold, by the number n of entries the other files hold.
Contents == [n \in 0..MaxStored |->
               {es \in SeqsUpTo(Times, MaxEntries) : n + Len(es) <= MaxStored}]

\* The entries of the files c[1..n] read so far.
RECURSIVE StoredEntries(_, _)
StoredEntries(c, n) ==
  IF n = 0 THEN 0 ELSE StoredEntries(c, n - 1) + Len(c[n].es)

Unread == [read |-> FALSE, es |-> <<>>]


\* ------------------------------------------------------------------ strings
Dot == "."
Underscore == "_"
Colon == ":"

HasPrefix(s, p) == Len(s) >= Len(p) /\ SubSeq(s, 1, Len(p)) = p

\* strings.Replace(s, old, new, -1) for a non-empty old: the non-overlapping
\* occurrences of old, from the left.
RECURSIVE Replace(_, _, _)
Replace(s, old, new) ==
  IF s = <<>> THEN <<>>
  ELSE IF HasPrefix(s, old)
       THEN new \o Replace(SubSeq(s, Len(old) + 1, Len(s)), old, new)
       ELSE <<Head(s)>> \o Replace(Tail(s), old, new)

\* strings.Index(s, c) for a one-character c, 0-based; -1 when c is absent.
RECURSIVE Index(_, _)
Index(s, c) ==
  IF s = <<>> THEN 0 - 1
  ELSE IF Head(s) = c THEN 0
  ELSE LET r == Index(Tail(s), c) IN IF r < 0 THEN r ELSE r + 1

\* The fields of s between the occurrences of the character sep.
RECURSIVE Split(_, _)
Split(s, sep) ==
  LET i == Index(s, sep)
  IN IF i < 0 THEN <<s>>
     ELSE <<SubSeq(s, 1, i)>> \o Split(SubSeq(s, i + 2, Len(s)), sep)

RECURSIVE Join(_, _)
Join(fields, sep) ==
  IF Len(fields) = 0 THEN <<>>
  ELSE IF Len(fields) = 1 THEN fields[1]
  ELSE fields[1] \o <<sep>> \o Join(Tail(fields), sep)

DigitChars == <<"0", "1", "2", "3", "4", "5", "6", "7", "8", "9">>
IsDigit(c) == c \in Range(DigitChars)
DigitValue(c) == (CHOOSE k \in 1..10 : DigitChars[k] = c) - 1

\* The %d verb on a non-negative int.
RECURSIVE Itoa(_)
Itoa(n) == IF n < 10 THEN <<DigitChars[n + 1]>>
           ELSE Itoa(n \div 10) \o <<DigitChars[(n % 10) + 1]>>

RECURSIVE Atoi(_)
Atoi(s) == IF s = <<>> THEN 0 ELSE Atoi(SubSeq(s, 1, Len(s) - 1)) * 10 + DigitValue(s[Len(s)])

AllDigits(s) == s # <<>> /\ \A k \in 1..Len(s) : IsDigit(s[k])

\* The decimal digits of the greatest int64, 9223372036854775807, and of the
\* magnitude of the least one.
MaxInt64Digits == <<"9", "2", "2", "3", "3", "7", "2", "0", "3", "6", "8", "5",
                    "4", "7", "7", "5", "8", "0", "7">>
MinInt64Digits == [MaxInt64Digits EXCEPT ![Len(MaxInt64Digits)] = "8"]

RECURSIVE StripZeros(_)
StripZeros(s) == IF Len(s) > 1 /\ Head(s) = "0" THEN StripZeros(Tail(s)) ELSE s

\* a <= b for two digit strings of the same length.
RECURSIVE DigitsLeq(_, _)
DigitsLeq(a, b) ==
  IF a = <<>> THEN TRUE
  ELSE IF Head(a) # Head(b) THEN DigitValue(Head(a)) < DigitValue(Head(b))
  ELSE DigitsLeq(Tail(a), Tail(b))

\* strconv.ParseInt(s, 10, 0) where int has 64 bits: [err, value].  A string that
\* is not an optional sign and digits is a syntax error, a value outside int64 a
\* range error.  The values the model parses without error have few digits.
ParseInt(s) ==
  LET signed == s # <<>> /\ s[1] \in {"+", "-"}
      negative == s # <<>> /\ s[1] = "-"
      digits == IF signed THEN Tail(s) ELSE s
      d == StripZeros(digits)
      limit == IF negative THEN MinInt64Digits ELSE MaxInt64Digits
      inRange == \/ Len(d) < Len(limit)
                 \/ Len(d) = Len(limit) /\ DigitsLeq(d, limit)
  IN IF ~AllDigits(digits) THEN [err |-> TRUE, value |-> 0]
     ELSE IF ~inRange THEN [err |-> TRUE, value |-> 0]
     ELSE [err |-> FALSE, value |-> IF negative THEN 0 - Atoi(d) ELSE Atoi(d)]

\* The longest prefix of s made of digits.
RECURSIVE LeadingDigits(_)
LeadingDigits(s) ==
  IF s = <<>> \/ ~IsDigit(Head(s)) THEN <<>>
  ELSE <<Head(s)>> \o LeadingDigits(Tail(s))

\* ------------------------------------------------------------------ levels
\* The Level enumeration and its names (declared outside file.go).
Levels == {"INFO", "WARNING", "ERROR", "FATAL"}

LevelString(l) ==
  CASE l = "INFO" -> <<"I", "N", "F", "O">>
    [] l = "WARNING" -> <<"W", "A", "R", "N", "I", "N", "G">>
    [] l = "ERROR" -> <<"E", "R", "R", "O", "R">>
    [] l = "FATAL" -> <<"F", "A", "T", "A", "L">>

\* LevelFromString: [found, level].
LevelFromString(s) ==
  IF \E l \in Levels : LevelString(l) = s
  THEN [found |-> TRUE, level |-> CHOOSE l \in Levels : LevelString(l) = s]
  ELSE [found |-> FALSE, level |-> "INFO"]

\* ------------------------------------------------------------------ time
\* t.Format(time.RFC3339) for a time of second precision, reduced to a clock of
\* two colon-separated numbers and the zone letter: <t div 10>:<t mod 10>Z.
\* Like the RFC 3339 layout it holds colons and neither a period nor an underscore.
TimeFormat(t) == Itoa(t \div 10) \o <<Colon>> \o Itoa(t % 10) \o <<"Z">>

\* time.Parse(time.RFC3339, s) for that layout: [err, time].
TimeParse(s) ==
  LET parts == Split(s, Colon)
  IN IF /\ Len(parts) = 2
        /\ AllDigits(parts[1])
        /\ Len(parts[2]) = 2
        /\ IsDigit(parts[2][1])
        /\ parts[2][2] = "Z"
     THEN [err |-> FALSE, time |-> Atoi(parts[1]) * 10 + DigitValue(parts[2][1])]
     ELSE [err |-> TRUE, time |-> 0]

\* ------------------------------------------------------------------ codec
shortHostname(hostname) ==
  LET i == Index(hostname, Dot)
  IN IF i >= 0 THEN SubSeq(hostname, 1, i) ELSE hostname

escapeStringForFilename(s) ==
  LET sEscapedPartial == Replace(s, <<Underscore>>, <<Underscore, Underscore>>)
  IN Replace(sEscapedPartial, <<Dot>>, <<Underscore>>)

unescapeStringForFilename(s) ==
  LET sUnescapedPartial == Replace(s, <<Underscore>>, <<Dot>>)
  IN Replace(sUnescapedPartial, <<Underscore, Underscore>>, <<Underscore>>)

LogToken == <<"l", "o", "g">>

logName(lvl, t, prog, hst, usr, p) ==
  LET tFormatted == Replace(TimeFormat(t), <<Colon>>, <<Underscore>>)
  IN [name |-> Join(<<escapeStringForFilename(prog),
                      escapeStringForFilename(hst),
                      escapeStringForFilename(usr),
                      LogToken,
                      LevelString(lvl),
                      tFormatted,
                      Itoa(p)>>, Dot),
      link |-> prog \o <<Dot>> \o LevelString(lvl)]

\* The severity alternatives of logFileRE.
RELevelTokens == {LevelString("ERROR"), LevelString("WARNING"), LevelString("INFO")}

\* Whether logFileRE matches with its first group in field j of fs, the fields of
\* the string between periods.  Each group [^\.]+ is followed by a literal
\* period, so it is a whole non-empty field; (\d+) is the digits that start the
\* last field, and nothing anchors the match at either end of the string.
REMatchAt(fs, j) ==
  /\ j + 6 <= Len(fs)
  /\ fs[j] # <<>>
  /\ fs[j + 1] # <<>>
  /\ fs[j + 2] # <<>>
  /\ fs[j + 3] = LogToken
  /\ fs[j + 4] \in RELevelTokens
  /\ fs[j + 5] # <<>>
  /\ LeadingDigits(fs[j + 6]) # <<>>

\* logFileRE.FindStringSubmatch(filename): the leftmost match, as
\* [matched, m] with m[1..6] the groups.
FindStringSubmatch(filename) ==
  LET fs == Split(filename, Dot)
      starts == {j \in 1..Len(fs) : REMatchAt(fs, j)}
  IN IF starts = {} THEN [matched |-> FALSE, m |-> <<>>]
     ELSE LET j == CHOOSE x \in starts : \A y \in starts : x <= y
          IN [matched |-> TRUE,
              m |-> <<fs[j], fs[j + 1], fs[j + 2], fs[j + 4], fs[j + 5],
                      LeadingDigits(fs[j + 6])>>]

\* logFileRE.MatchString(filename)
MatchString(filename) == FindStringSubmatch(filename).matched

NoDetails == [ok |-> FALSE, Program |-> <<>>, Host |-> <<>>, UserName |-> <<>>,
              Level |-> "INFO", Time |-> 0, PID |-> 0]

parseLogFilename(filename) ==
  LET found == FindStringSubmatch(filename)
  IN IF ~found.matched THEN NoDetails
     ELSE LET matches == found.m
              lv == LevelFromString(matches[4])
              fixTime == Replace(matches[5], <<Underscore>>, <<Colon>>)
              tm == TimeParse(fixTime)
              pidNum == ParseInt(matches[6])
          IN IF ~lv.found THEN NoDetails
             ELSE IF tm.err THEN NoDetails
             ELSE IF pidNum.err THEN NoDetails
             ELSE [ok |-> TRUE,
                   Program |-> unescapeStringForFilename(matches[1]),
                   Host |-> unescapeStringForFilename(matches[2]),
                   UserName |-> unescapeStringForFilename(matches[3]),
                   Level |-> lv.level,
                   Time |-> tm.time,
                   PID |-> pidNum.value]

\* ------------------------------------------------------------------ codec: actions
IdChars == {"a", Dot, Underscore}
IdStrings == SeqsUpTo(IdChars, MaxIdLen) \ {<<>>}
\* os.Hostname() results: a host name does not start with a period.
HostNames == {h \in IdStrings : h[1] # Dot}
\* filepath.Base(os.Args[0]) and the user name.
ProgramNames == {<<"a">>, <<"a", Dot>>, <<"a", Underscore>>, <<Underscore, Dot>>}
UserNames == {<<"a">>, <<Dot, Underscore>>}

\* File names near the one logName built: a field dropped, a field added at
\* either end, a field replaced (the pid, among others, by a number past int64).
Alterations(n) ==
  LET fs == Split(n, Dot)
      drop(i) == SubSeq(fs, 1, i - 1) \o SubSeq(fs, i + 1, Len(fs))
      put(i, f) == [fs EXCEPT ![i] = f]
  IN {Join(drop(i), Dot) : i \in 1..Len(fs)}
       \cup {Join(<<f>> \o fs, Dot) : f \in {<<"a">>, LogToken}}
       \cup {Join(fs \o <<f>>, Dot) : f \in {<<"a">>, <<"7">>}}
       \cup {Join(put(5, f), Dot) : f \in {<<"D">>, <<"i", "n", "f", "o">>}}
       \cup {Join(put(7, f), Dot) :
                f \in {<<"a">>, <<"7", "a">>, <<>>, Append(MaxInt64Digits, "0")}}
       \cup {Join(put(6, f), Dot) : f \in {<<"a">>, <<"7">>}}
       \cup {Join(put(4, f), Dot) : f \in {<<"l">>}}

CodecInit ==
  /\ program \in ProgramNames
  /\ \E h \in HostNames : host = shortHostname(h)
  /\ userName \in UserNames
  /\ pid \in {7, 12}
  /\ inLevel \in Levels
  /\ inTime \in 0..MaxSecond
  /\ name = <<>>
  /\ link = <<>>
  /\ details = NoDetails
  /\ cpc = "start"

\* logName(level, t)
CodecLogName ==
  /\ UNCHANGED codecOthers
  /\ cpc = "start"
  /\ LET r == logName(inLevel, inTime, program, host, userName, pid)
     IN /\ name' = r.name
        /\ link' = r.link
  /\ cpc' = "encoded"
  /\ UNCHANGED <<program, host, userName, pid, inLevel, inTime, details>>

\* Some other file name reaches the directory instead.
CodecAlter ==
  /\ UNCHANGED codecOthers
  /\ cpc = "encoded"
  /\ name' \in Alterations(name)
  /\ cpc' = "altered"
  /\ UNCHANGED <<program, host, userName, pid, inLevel, inTime, link, details>>

CodecParse(from, to) ==
  /\ UNCHANGED codecOthers
  /\ cpc = from
  /\ details' = parseLogFilename(name)
  /\ cpc' = to
  /\ UNCHANGED <<program, host, userName, pid, inLevel, inTime, name, link>>

CodecNext ==
  \/ CodecLogName
  \/ CodecAlter
  \/ CodecParse("encoded", "parsed")
  \/ CodecParse("altered", "parsedAltered")

\* ------------------------------------------------------------------ paths
Slash == "/"

\* path.IsAbs
IsAbs(pth) == pth # <<>> /\ pth[1] = Slash

RECURSIVE StripTrailingSlashes(_)
StripTrailingSlashes(pth) ==
  IF pth # <<>> /\ pth[Len(pth)] = Slash
  THEN StripTrailingSlashes(SubSeq(pth, 1, Len(pth) - 1))
  ELSE pth

\* path.Base
Base(pth) ==
  IF pth = <<>> THEN <<Dot>>
  ELSE LET t == StripTrailingSlashes(pth)
       IN IF t = <<>> THEN <<Slash>>
          ELSE LET parts == Split(t, Slash) IN parts[Len(parts)]

\* path.Clean over the slash-separated elements still to read: an empty element
\* and "." are dropped, ".." takes back the element before it (at the root it is
\* dropped, at the start of a relative path it stays).
RECURSIVE CleanParts(_, _, _)
CleanParts(parts, rooted, out) ==
  IF parts = <<>> THEN out
  ELSE LET c == Head(parts)
           rest == Tail(parts)
       IN IF c = <<>> \/ c = <<Dot>> THEN CleanParts(rest, rooted, out)
          ELSE IF c # <<Dot, Dot>> THEN CleanParts(rest, rooted, Append(out, c))
          ELSE IF out # <<>> /\ out[Len(out)] # <<Dot, Dot>>
               THEN CleanParts(rest, rooted, SubSeq(out, 1, Len(out) - 1))
          ELSE IF rooted THEN CleanParts(rest, rooted, out)
          ELSE CleanParts(rest, rooted, Append(out, c))

\* path.Clean
Clean(pth) ==
  IF pth = <<>> THEN <<Dot>>
  ELSE LET rooted == pth[1] = Slash
           body == Join(CleanParts(Split(pth, Slash), rooted, <<>>), Slash)
       IN IF rooted THEN <<Slash>> \o body
          ELSE IF body = <<>> THEN <<Dot>>
          ELSE body

\* path.Join(dir, file): the non-empty elements joined by a slash, then cleaned.
PathJoin(dir, file) ==
  LET elems == SelectSeq(<<dir, file>>, LAMBDA e : e # <<>>)
  IN IF elems = <<>> THEN <<>> ELSE Clean(Join(elems, Slash))

DirA == <<Slash, "a">>
DirB == <<Slash, "b">>
Dirs == {DirA, DirB}

DirLists == {q \in SeqsUpTo(Dirs, MaxDirs) :
               \A i, j \in 1..Len(q) : i # j => q[i] # q[j]}

\* ------------------------------------------------------------------ create
createLogDirs(dirs, flag) == IF flag # <<>> THEN Append(dirs, flag) ELSE dirs

\* The loop of lines 186-203 from directory k on; tried lists the directories in
\* which os.OpenFile was called.
RECURSIVE CreateLoop(_, _, _, _, _)
CreateLoop(dirs, k, fileName, canWrite, tried) ==
  IF k > Len(dirs)
  THEN [ok |-> FALSE, fname |-> <<>>, dir |-> <<>>, tried |-> tried]
  ELSE LET dir == dirs[k]
           fname == PathJoin(dir, fileName)
           openErr == dir \notin canWrite
       IN IF openErr
          THEN [ok |-> FALSE, fname |-> <<>>, dir |-> <<>>, tried |-> Append(tried, dir)]
          ELSE [ok |-> TRUE, fname |-> fname, dir |-> dir, tried |-> Append(tried, dir)]

\* Lines 197-199: os.Remove(symlink), then os.Symlink(name, symlink), both errors
\* ignored.  A link that Remove left in place makes Symlink fail.
UpdateSymlink(links, dir, lk, target, removeOk, symlinkOk) ==
  LET old == {x \in links : x[1] = dir /\ x[2] = lk}
      afterRemove == IF removeOk THEN links \ old ELSE links
      free == \A x \in afterRemove : ~(x[1] = dir /\ x[2] = lk)
  IN IF symlinkOk /\ free
     THEN afterRemove \cup {<<dir, lk, target>>}
     ELSE afterRemove

NoCreate == [called |-> FALSE, ok |-> FALSE, fname |-> <<>>, tried |-> <<>>]

CreateInit ==
  /\ logDir \in {<<>>} \cup Dirs
  /\ logDirs \in DirLists
  /\ onceDone = FALSE
  /\ writable \in SUBSET Dirs
  /\ symlinks = {}
  /\ createRes = NoCreate
  /\ nCreates = 0

\* create(level, t)
Create(lvl, t) ==
  /\ UNCHANGED createOthers
  /\ nCreates < MaxCreates
  /\ nCreates' = nCreates + 1
  /\ onceDone' = TRUE
  /\ LET dirs == IF onceDone THEN logDirs ELSE createLogDirs(logDirs, logDir)
         nl == logName(lvl, t, program, host, userName, pid)
     IN /\ logDirs' = dirs
        /\ IF Len(dirs) = 0
           THEN /\ createRes' = [NoCreate EXCEPT !.called = TRUE]
                /\ files' = files
                /\ symlinks' = symlinks
           ELSE LET r == CreateLoop(dirs, 1, nl.name, writable, <<>>)
                IN /\ createRes' = [called |-> TRUE, ok |-> r.ok,
                                    fname |-> r.fname, tried |-> r.tried]
                   /\ IF r.ok
                      THEN /\ files' = files \cup {r.fname}
                           /\ \E removeOk, symlinkOk \in BOOLEAN :
                                symlinks' = UpdateSymlink(symlinks, r.dir, nl.link,
                                                          nl.name, removeOk, symlinkOk)
                      ELSE /\ files' = files
                           /\ symlinks' = symlinks
  /\ UNCHANGED <<logDir, writable>>

CreateNext == \E lvl \in Levels, t \in 0..MaxSecond : Create(lvl, t)

\* ------------------------------------------------------------------ GetLogReader
\* verifyFile(filename) == nil: os.Stat finds a regular file whose base name
\* parses as a log file name.
VerifyFileOk(pth, onDisk) ==
  /\ pth \in onDisk
  /\ parseLogFilename(Base(pth)).ok

NoReader == <<>>

\* The loop of lines 288-297 from directory k on: [reader, err, accessed].
RECURSIVE ReaderLoop(_, _, _, _, _, _, _)
ReaderLoop(dirs, k, filename, err, onDisk, noOpen, acc) ==
  IF k > Len(dirs)
  THEN [reader |-> NoReader, err |-> err, accessed |-> acc]
  ELSE LET joined == PathJoin(dirs[k], filename)
           acc1 == Append(acc, <<"stat", joined>>)
       IN IF VerifyFileOk(joined, onDisk)
          THEN LET acc2 == Append(acc1, <<"open", joined>>)
               IN IF joined \notin noOpen
                  THEN [reader |-> joined, err |-> FALSE, accessed |-> acc2]
                  ELSE ReaderLoop(dirs, k + 1, joined, TRUE, onDisk, noOpen, acc2)
          ELSE ReaderLoop(dirs, k + 1, joined, err, onDisk, noOpen, acc1)

GetLogReader(filename, allowAbsolute, dirs, onDisk, noOpen) ==
  LET refused == [reader |-> NoReader, err |-> TRUE, accessed |-> <<>>]
      absVerified == IsAbs(filename) /\ allowAbsolute /\ VerifyFileOk(filename, onDisk)
      statAbs == IF IsAbs(filename) /\ allowAbsolute
                 THEN <<<<"stat", filename>>>> ELSE <<>>
  IN IF IsAbs(filename) /\ ~allowAbsolute THEN refused
     ELSE IF absVerified
     THEN [reader |-> IF filename \in noOpen THEN NoReader ELSE filename,
           err |-> filename \in noOpen,
           accessed |-> statAbs \o <<<<"open", filename>>>>]
     ELSE IF Base(filename) # filename
     THEN [refused EXCEPT !.accessed = statAbs]
     ELSE IF ~MatchString(filename)
     THEN [refused EXCEPT !.accessed = statAbs]
     ELSE ReaderLoop(dirs, 1, filename, FALSE, onDisk, noOpen, statAbs)

\* A log file name, the same with a field before it, and a name that is no log
\* file's.
GoodName == logName("INFO", 1, <<"a">>, <<"a">>, <<"a">>, 7).name
LongerName == <<"x", Dot>> \o GoodName
OtherName == <<"n">>
BaseNames == {GoodName, LongerName, OtherName}

DiskPaths ==
  {PathJoin(d, n) : d \in Dirs, n \in BaseNames}
    \cup {PathJoin(DirB, PathJoin(DirA, n)) : n \in BaseNames}

RequestNames ==
  BaseNames
    \cup {PathJoin(DirA, n) : n \in BaseNames}
    \cup {<<"a", Slash>> \o GoodName, <<Dot, Dot, Slash>> \o GoodName,
          GoodName \o <<Slash>>, <<Slash>>, <<>>}

ReaderInit ==
  /\ logDirs \in DirLists
  /\ \E onDisk \in {S \in SUBSET DiskPaths : Cardinality(S) <= 1} :
       /\ files = onDisk
       /\ unreadable \in SUBSET onDisk
  /\ rFilename \in RequestNames
  /\ rAllowAbsolute \in BOOLEAN
  /\ accessed = <<>>
  /\ readerRes = [reader |-> NoReader, err |-> FALSE]
  /\ rpc = "call"

ReaderCall ==
  /\ UNCHANGED readerOthers
  /\ rpc = "call"
  /\ LET r == GetLogReader(rFilename, rAllowAbsolute, logDirs, files, unreadable)
     IN /\ readerRes' = [reader |-> r.reader, err |-> r.err]
        /\ accessed' = r.accessed
  /\ rpc' = "done"
  /\ UNCHANGED <<files, unreadable, rFilename, rAllowAbsolute>>

ReaderNext == ReaderCall

\* ------------------------------------------------------------------ fetch
\* The loop of lines 324-336 over logFiles[1..n], as a fold.  diffToStart starts at
\* math.MaxInt64, which no difference of two model times reaches: atMax says that
\* it still holds that value.
RECURSIVE SelectFiles(_, _, _, _, _)
SelectFiles(fs, n, lvl, st, en) ==
  IF n = 0
  THEN [nanos |-> <<>>, map |-> <<>>, atMax |-> TRUE, diff |-> 0, closest |-> 0]
  ELSE LET acc == SelectFiles(fs, n - 1, lvl, st, en)
           f == fs[n]
           nano == f.time
       IN IF f.level = lvl /\ nano <= en
          THEN LET better == /\ nano <= st
                             /\ (acc.atMax \/ (st - nano) < acc.diff)
               IN [nanos |-> Append(acc.nanos, nano),
                   map |-> Append(SelectSeq(acc.map, LAMBDA p : p[1] # nano),
                                  <<nano, n>>),
                   atMax |-> acc.atMax /\ ~better,
                   diff |-> IF better THEN st - nano ELSE acc.diff,
                   closest |-> IF better THEN nano ELSE acc.closest]
          ELSE acc

\* logFileMap[nano]
MapGet(m, nano) == (CHOOSE p \in Range(m) : p[1] = nano)[2]

InWindow(e, st, en) == e >= st /\ e <= en

\* KeepEntries with each kept entry put behind the ones kept so far.
RECURSIVE KeepEntriesAppending(_, _, _)
KeepEntriesAppending(es, st, en) ==
  IF es = <<>> THEN <<>>
  ELSE LET rest == KeepEntriesAppending(Tail(es), st, en)
       IN IF InWindow(Head(es), st, en) THEN <<Head(es)>> \o rest ELSE rest

\* readAllEntriesFromFile, lines 372-386, on a file that decodes to its end:
\* every in-window entry is put in front of the ones kept so far.
RECURSIVE KeepEntries(_, _, _)
KeepEntries(es, st, en) ==
  IF es = <<>> THEN <<>>
  ELSE LET rest == KeepEntries(Tail(es), st, en)
       IN IF InWindow(Head(es), st, en) THEN rest \o <<Head(es)>> ELSE rest

\* readAllEntriesFromFile, lines 367-371, given what GetLogReader returned: line 368
\* defers reader.Close() before line 369 tests reader, and calling a method of a
\* nil interface value panics.
ReaderStep(readerNil, errNil) ==
  IF readerNil THEN "panic"
  ELSE IF ~errNil THEN "error"
  ELSE "decode"

FetchInit ==
  /\ logFiles \in Listings
  /\ content = [i \in 1..Len(logFiles) |-> Unread]
  /\ level \in RequestLevels
  /\ startTimeNano \in WindowTimes
  /\ endTimeNano \in WindowTimes
  /\ startTimeNano <= endTimeNano
  /\ EntiresCutoff \in 1..MaxCutoff
  /\ fpc = "call"
  /\ nanos = <<>>
  /\ logFileMap = <<>>
  /\ closestToStartNano = 0
  /\ pos = 1
  /\ entries = <<>>
  /\ opened = <<>>
  /\ outcome = "none"
  /\ result = <<>>

\* Lines 313-316: ListLogFiles fails (a directory cannot be read).
FetchListError ==
  /\ UNCHANGED fetchOthers
  /\ fpc = "call"
  /\ fpc' = "done"
  /\ outcome' = "error"
  /\ result' = <<>>
  /\ UNCHANGED <<logFiles, content, level, startTimeNano, endTimeNano,
                 EntiresCutoff, nanos, logFileMap, closestToStartNano, pos,
                 entries, opened>>

\* Lines 313-345: list, select, sort.
FetchSelect ==
  /\ UNCHANGED fetchOthers
  /\ fpc = "call"
  /\ LET sel == SelectFiles(logFiles, Len(logFiles), level, startTimeNano, endTimeNano)
     IN /\ logFileMap' = sel.map
        /\ closestToStartNano' = sel.closest
        /\ IF Len(sel.nanos) = 0
           THEN /\ nanos' = sel.nanos
                /\ fpc' = "done"
                /\ outcome' = "ok"
           ELSE /\ nanos' = SortReverse(sel.nanos)
                /\ fpc' = "loop"
                /\ outcome' = "none"
  /\ UNCHANGED <<logFiles, content, level, startTimeNano, endTimeNano,
                 EntiresCutoff, pos, entries, opened, result>>

\* Lines 346-359, one iteration, GetLogReader returning no reader: the file cannot
\* be opened (nil, err: line 291 fails in the last directory) or passes verifyFile
\* in no directory (nil, nil: line 297 with err never set).
FetchReadNoReader ==
  /\ UNCHANGED fetchOthers
  /\ fpc = "loop"
  /\ pos <= Len(nanos)
  /\ opened' = Append(opened, MapGet(logFileMap, nanos[pos]))
  /\ fpc' = "done"
  /\ \E errNil \in BOOLEAN : outcome' = ReaderStep(TRUE, errNil)
  /\ UNCHANGED <<logFiles, content, level, startTimeNano, endTimeNano,
                 EntiresCutoff, nanos, logFileMap, closestToStartNano, pos,
                 entries, result>>

\* One iteration, the decoder failing with an error other than io.EOF
\* (lines 376-381, then 348-350).
FetchReadDecodeError ==
  /\ UNCHANGED fetchOthers
  /\ fpc = "loop"
  /\ pos <= Len(nanos)
  /\ opened' = Append(opened, MapGet(logFileMap, nanos[pos]))
  /\ fpc' = "done"
  /\ outcome' = "error"
  /\ result' = <<>>
  /\ UNCHANGED <<logFiles, content, level, startTimeNano, endTimeNano,
                 EntiresCutoff, nanos, logFileMap, closestToStartNano, pos,
                 entries>>

\* AfterRead without the test of line 352.
AfterReadIgnoringCutoff(newEntries) ==
  LET all == entries \o newEntries
      nano == nanos[pos]
      stop == \/ nano = closestToStartNano
              \/ pos = Len(nanos)
  IN /\ entries' = all
     /\ pos' = pos + 1
     /\ IF stop
        THEN /\ fpc' = "done"
             /\ outcome' = "ok"
             /\ result' = all
        ELSE /\ fpc' = "loop"
             /\ outcome' = "none"
             /\ result' = result

\* The statements after the read, lines 351-358, and the return of line 360.
AfterRead(newEntries) ==
  LET all == entries \o newEntries
      nano == nanos[pos]
      stop == \/ Len(all) >= EntiresCutoff
              \/ nano = closestToStartNano
              \/ pos = Len(nanos)
  IN /\ entries' = all
     /\ pos' = pos + 1
     /\ IF stop
        THEN /\ fpc' = "done"
             /\ outcome' = "ok"
             /\ result' = all
        ELSE /\ fpc' = "loop"
             /\ outcome' = "none"
             /\ result' = result

\* One iteration, the file read to io.EOF.
FetchReadFile ==
  /\ UNCHANGED fetchOthers
  /\ fpc = "loop"
  /\ pos <= Len(nanos)
  /\ ReaderStep(FALSE, TRUE) = "decode"
  /\ LET i == MapGet(logFileMap, nanos[pos])
     IN /\ opened' = Append(opened, i)
        /\ \E es \in IF content[i].read THEN {content[i].es}
                     ELSE Contents[StoredEntries(content, Len(content))] :
             /\ content' = [content EXCEPT ![i] = [read |-> TRUE, es |-> es]]
             /\ AfterRead(KeepEntries(es, startTimeNano, endTimeNano))
  /\ UNCHANGED <<logFiles, level, startTimeNano, endTimeNano, EntiresCutoff,
                 nanos, logFileMap, closestToStartNano>>

FetchNext ==
  \/ FetchListError
  \/ FetchSelect
  \/ FetchReadNoReader
  \/ FetchReadDecodeError
  \/ FetchReadFile

\* ------------------------------------------------------------------ specifications
\* Each specification runs one part of the package; the variables of the other
\* parts keep the values given here.
CodecFixed ==
  /\ program = <<"a">>
  /\ host = <<"a">>
  /\ userName = <<"a">>
  /\ pid = 7
  /\ inLevel = "INFO"
  /\ inTime = 0
  /\ name = <<>>
  /\ link = <<>>
  /\ details = NoDetails
  /\ cpc = "idle"

CreateIdle ==
  /\ logDir = <<>>
  /\ onceDone = FALSE
  /\ writable = {}
  /\ symlinks = {}
  /\ createRes = NoCreate
  /\ nCreates = 0

ReaderIdle ==
  /\ files = {}
  /\ unreadable = {}
  /\ rFilename = <<>>
  /\ rAllowAbsolute = FALSE
  /\ accessed = <<>>
  /\ readerRes = [reader |-> NoReader, err |-> FALSE]
  /\ rpc = "idle"

FetchIdle ==
  /\ logFiles = <<>>
  /\ content = <<>>
  /\ level = "INFO"
  /\ startTimeNano = 0
  /\ endTimeNano = 0
  /\ EntiresCutoff = 1
  /\ fpc = "idle"
  /\ nanos = <<>>
  /\ logFileMap = <<>>
  /\ closestToStartNano = 0
  /\ pos = 1
  /\ entries = <<>>
  /\ opened = <<>>
  /\ outcome = "none"
  /\ result = <<>>

InitCodec == CodecInit /\ CreateIdle /\ logDirs = <<>> /\ ReaderIdle /\ FetchIdle
SpecCodec == InitCodec /\ [][CodecNext]_vars

InitCreate == CodecFixed /\ CreateInit /\ ReaderIdle /\ FetchIdle
SpecCreate == InitCreate /\ [][CreateNext]_vars

InitReader == CodecFixed /\ CreateIdle /\ ReaderInit /\ FetchIdle
SpecReader == InitReader /\ [][ReaderNext]_vars

InitFetch == CodecFixed /\ CreateIdle /\ logDirs = <<>> /\ ReaderIdle /\ FetchInit
SpecFetch == InitFetch /\ [][FetchNext]_vars

\* ------------------------------------------------------------------ codec: claims
LevelTokens == {LevelString(l) : l \in Levels}

\* The file name grammar of the whole string:
\* {program}.{host}.{user}.log.{SEVERITY}.{timestamp}.{pid}
Canonical(n) ==
  LET fs == Split(n, Dot)
  IN /\ Len(fs) = 7
     /\ fs[1] # <<>> /\ fs[2] # <<>> /\ fs[3] # <<>>
     /\ fs[4] = LogToken
     /\ fs[5] \in LevelTokens
     /\ ~TimeParse(Replace(fs[6], <<Underscore>>, <<Colon>>)).err
     /\ AllDigits(fs[7])

\* C4: parsing the name logName built succeeds and gives back the level and the
\* time, for every level.
C4_LevelAndTimeRoundTrip ==
  cpc = "parsed" =>
    /\ details.ok
    /\ details.Level = inLevel
    /\ details.Time = inTime

\* The same for the three levels logFileRE lists.
C4_HoldsForListedLevels ==
  (cpc = "parsed" /\ LevelString(inLevel) \in RELevelTokens) =>
    /\ details.ok
    /\ details.Level = inLevel
    /\ details.Time = inTime

\* C5: unescaping undoes escaping, so the parsed name carries the program, host
\* and user name that were encoded.
C5_IdentityRoundTrip ==
  cpc = "parsed" =>
    /\ unescapeStringForFilename(escapeStringForFilename(program)) = program
    /\ unescapeStringForFilename(escapeStringForFilename(host)) = host
    /\ unescapeStringForFilename(escapeStringForFilename(userName)) = userName
    /\ details.ok =>
         /\ details.Program = program
         /\ details.Host = host
         /\ details.UserName = userName

\* C6: a name that is not of the grammar as a whole fails to parse.
C6_RejectsNonCanonical ==
  (cpc \in {"parsed", "parsedAltered"} /\ ~Canonical(name)) => ~details.ok

\* ------------------------------------------------------------------ create: claims
IsFirstWritable(k) ==
  /\ k \in 1..Len(logDirs)
  /\ logDirs[k] \in writable
  /\ \A j \in 1..(k - 1) : logDirs[j] \notin writable

\* C8: the directories are tried in list order, the first that opens wins, and an
\* error is returned only after the open failed in every directory.
C8_ErrorOnlyAfterEveryDir ==
  createRes.called =>
    /\ createRes.ok =>
         /\ IsFirstWritable(Len(createRes.tried))
         /\ createRes.tried = SubSeq(logDirs, 1, Len(createRes.tried))
    /\ ~createRes.ok =>
         /\ createRes.tried = logDirs
         /\ \A k \in 1..Len(logDirs) : logDirs[k] \notin writable

\* ------------------------------------------------------------------ GetLogReader: claims
HasSeparator(pth) == Slash \in Range(pth)

\* C9: without allowAbsolute an absolute path, and in either mode a relative name
\* holding a separator, is refused before the file system is touched; without
\* allowAbsolute a stream is on a file that is named by a bare name of the
\* grammar and lies directly in a candidate directory.
C9_AccessPolicy ==
  rpc = "done" =>
    /\ (IsAbs(rFilename) /\ ~rAllowAbsolute) =>
         (readerRes.err /\ readerRes.reader = NoReader /\ accessed = <<>>)
    /\ (~IsAbs(rFilename) /\ HasSeparator(rFilename)) =>
         (readerRes.err /\ readerRes.reader = NoReader /\ accessed = <<>>)
    /\ (~rAllowAbsolute /\ readerRes.reader # NoReader) =>
         /\ ~HasSeparator(rFilename)
         /\ Canonical(rFilename)
         /\ \E d \in Range(logDirs) : readerRes.reader = PathJoin(d, rFilename)

\* The refusals alone.
C9_RefusalsHold ==
  rpc = "done" =>
    /\ (IsAbs(rFilename) /\ ~rAllowAbsolute) =>
         (readerRes.err /\ readerRes.reader = NoReader /\ accessed = <<>>)
    /\ (~IsAbs(rFilename) /\ HasSeparator(rFilename)) =>
         (readerRes.err /\ readerRes.reader = NoReader /\ accessed = <<>>)

\* ------------------------------------------------------------------ fetch: claims
Returned == fpc = "done" /\ outcome = "ok"

\* Step 1 of the selection: the listed files of the requested level created at or
\* before the window end.
Retained == {i \in 1..Len(logFiles) :
               logFiles[i].level = level /\ logFiles[i].time <= endTimeNano}

DistinctTimes ==
  \A i, j \in 1..Len(logFiles) : i # j => logFiles[i].time # logFiles[j].time

\* The retained files no older than the boundary segment (all of them when no
\* retained file was created at or before the window start).
ScanRange ==
  LET below == {i \in Retained : logFiles[i].time <= startTimeNano}
  IN IF below = {} THEN Retained
     ELSE LET b == CHOOSE i \in below :
                     \A j \in below : logFiles[j].time <= logFiles[i].time
          IN {i \in Retained : logFiles[i].time >= logFiles[b].time}

IsDescendingScanOf(seq, S) ==
  /\ Len(seq) = Cardinality(S)
  /\ Range(seq) = S
  /\ \A k \in 1..(Len(seq) - 1) : logFiles[seq[k]].time > logFiles[seq[k + 1]].time

\* C1: with pairwise distinct creation times and the cutoff not reached, the files
\* opened are exactly the retained files from the newest down to the boundary
\* segment, newest first.
C1_ScansExactlyRange ==
  (Returned /\ DistinctTimes /\ Len(result) < EntiresCutoff)
    => IsDescendingScanOf(opened, ScanRange)

\* The same statement for listings without a file dated before the Unix epoch.
C1_HoldsFromEpochOn ==
  (Returned /\ DistinctTimes /\ Len(result) < EntiresCutoff
     /\ \A i \in 1..Len(logFiles) : logFiles[i].time >= 0)
    => IsDescendingScanOf(opened, ScanRange)

Kept(i) == KeepEntries(content[i].es, startTimeNano, endTimeNano)

NonDecreasing(s) == \A k \in 1..(Len(s) - 1) : s[k] <= s[k + 1]
NonIncreasing(s) == \A k \in 1..(Len(s) - 1) : s[k] >= s[k + 1]

\* Every file read stores its entries oldest first, none older than the file's
\* creation time, all older than the creation time of every other retained file
\* that was not created earlier.
WellFormedSegments ==
  LET retained == Retained
  IN \A i \in 1..Len(logFiles) :
       content[i].read =>
         /\ NonDecreasing(content[i].es)
         /\ \A e \in Range(content[i].es) :
              /\ e >= logFiles[i].time
              /\ \A j \in retained \ {i} :
                   logFiles[j].time >= logFiles[i].time => e < logFiles[j].time

\* C2, as stated: over well-formed segments the returned entries are in
\* non-decreasing timestamp order, oldest first.
C2_ReturnedOldestFirst ==
  Returned => (NonDecreasing(result) \/ ~WellFormedSegments)

\* C2, amended: over well-formed segments the returned entries are in
\* non-increasing timestamp order, newest first.
C2_ReturnedNewestFirst ==
  Returned => (NonIncreasing(result) \/ ~WellFormedSegments)

C2_Witness ==
  /\ Returned
  /\ WellFormedSegments
  /\ Len(opened) = 2
  /\ Len(Kept(opened[2])) = 2
  /\ Len(result) = 3
  /\ result[1] > result[2]
  /\ result[2] > result[3]

RECURSIVE KeptUpTo(_)
\* The in-window entries of the first k files opened, in the order read.
KeptUpTo(k) == IF k = 0 THEN <<>> ELSE KeptUpTo(k - 1) \o Kept(opened[k])

\* In-window entries of the distinct files read.
ReadTotal ==
  LET S == Range(opened)
      RECURSIVE Sum(_)
      Sum(T) == IF T = {} THEN 0
                ELSE LET i == CHOOSE x \in T : TRUE
                     IN Len(Kept(i)) + Sum(T \ {i})
  IN Sum(S)

\* Every file was opened with fewer than EntiresCutoff entries accumulated: the
\* count never shrinks, so the count before the last file opened bounds the others.
NoFileBeyondCutoff ==
  Len(opened) > 0 => Len(KeptUpTo(Len(opened) - 1)) < EntiresCutoff

\* C3, as stated: when more than EntiresCutoff in-window entries are on disk, the
\* result holds exactly EntiresCutoff entries and no file is opened once the
\* cutoff is reached.
C3_ExactlyCutoff ==
  (Returned /\ ReadTotal > EntiresCutoff)
    => (Len(result) = EntiresCutoff /\ NoFileBeyondCutoff)

\* C3, amended: no file is opened once the accumulated in-window entries number
\* EntiresCutoff or more, and the result is not cut down to the cutoff: it is
\* every in-window entry of every file opened.
C3_StopsOpeningAtCutoff ==
  Returned => (result = KeptUpTo(Len(opened)) /\ NoFileBeyondCutoff)

C3_Witness ==
  /\ Returned
  /\ Len(opened) >= 1
  /\ pos <= Len(nanos)
  /\ nanos[pos - 1] # closestToStartNano
  /\ Len(result) > EntiresCutoff

\* C7: a fetch in which a file could not be opened or decoded ends by returning an
\* error and no entries.
C7_FailureReturnsError ==
  (fpc = "done" /\ Len(opened) > 0 /\ outcome # "ok")
    => (outcome = "error" /\ result = <<>>)

\* C10: every file is read at most once, and no retained file at or after the
\* creation time of the last file read is left out.
C10_EachSegmentOnce ==
  Returned =>
    /\ \A k1, k2 \in 1..Len(opened) : k1 # k2 => opened[k1] # opened[k2]
    /\ Len(opened) > 0 =>
         \A i \in Retained :
           logFiles[i].time >= logFiles[opened[Len(opened)]].time
             => i \in Range(opened)

====
